---------------------------- MODULE Spec2Model ----------------------------
(***************************************************************************)
(* A model of the polygon-mev-bot pipeline.                                *)
(*                                                                         *)
(*   MempoolMonitor (src/src/main.rs): the ingestion task                  *)
(*   (start_monitoring / process_transaction / analyze_arbitrage) and the  *)
(*   scheduler loop of main (execute_opportunities / should_execute /      *)
(*   execute_flash_loan), sharing three tokio mutexes.                     *)
(*                                                                         *)
(*   FastLaneClient (src/src/fastlane_integration.rs): bundle construction *)
(*   and submission, driven by a library caller.                           *)
(*                                                                         *)
(*   AdvancedSimulationEngine (src/src/simulation_engine.rs): the cached   *)
(*   simulate_multi_dex_arbitrage, called by one task in sequence          *)
(*   (SimulatorSpec, with simulate_price_impact of main.rs) and by several *)
(*   tasks at once (EngineSpec).                                           *)
(*                                                                         *)
(*   parse_quickswap_tx (src/src/quickswap.rs): the call-data decoder,     *)
(*   applied to ABI-encoded and malformed transactions (DecoderSpec).      *)
(*                                                                         *)
(* Every `.await` of the source is a step of its own, so that a lock held  *)
(* across an await is visible as a state.  Amounts are counted in gwei     *)
(* (10^9 wei): gas prices are whole gwei, and 15^15 wei, which is not a    *)
(* multiple of 300000 gwei, compares with every gas cost g * 300000 gwei   *)
(* exactly as its integer part does.                                       *)
(***************************************************************************)
EXTENDS Integers, Sequences, FiniteSets, TLC

(***************************************************************************)
(* Bounds of the model.                                                    *)
(***************************************************************************)
\* Number of distinct transaction hashes the stream can deliver.
NumTx == 3
\* The count of downstream forwards of one hash saturates here.
MaxForward == 2
\* The chain head observed by the FastLane client ranges over 0..MaxBlock.
MaxBlock == 2
\* Number of tasks calling the simulation engine at the same time.
NumCallers == 2
\* Number of distinct transaction hashes handed to the simulation engine.
NumSimTx == 2
\* The depth argument of simulate_multi_dex_arbitrage ranges over 1..MaxDepth.
MaxDepth == 3
\* The path argument of a router call has 0..MaxPathLen addresses.
MaxPathLen == 3
\* The clock of the chain stops at MaxTime seconds.
MaxTime == 180

(***************************************************************************)
(* Program constants.                                                      *)
(***************************************************************************)
\* main.rs:130   price_impact > U256::from(100)
MIN_IMPACT == 100
\* main.rs:176   ExecutionResult::Success => U256::from(150)
SUCCESS_IMPACT == 150
\* main.rs:177   _ => U256::zero()
ZERO_IMPACT == 0
\* main.rs:135   U256::from(10).pow(15) wei = 10^6 gwei
MIN_PROFIT == 1000000
\* main.rs:199   U256::from(15).pow(15) wei = 437893890.38 gwei
EXAMPLE_PROFIT == 437893890
\* main.rs:230   gas_price * U256::from(300000)
GAS_UNITS == 300000
\* fastlane_integration.rs:79   let status: u8
U8_MAX == 255

Hashes == 1..NumTx

\* The three routers of is_swap_transaction, a non-router address, and an
\* absent recipient (tx.to = None).
QUICKSWAP == "0xa5e0829caced8ffdd4de3c43696c57f7d7a678ff"
SUSHISWAP == "0x1b02da8cb0d097eb8d57a175b88c7d8b47997506"
UNISWAP_V3 == "0xe592427a0aece92de3edee1f18e0157c05861564"
OTHER_ADDR == "0x00000000000000000000000000000000000000aa"
NoRecipient == "None"

known_routers == {QUICKSWAP, SUSHISWAP, UNISWAP_V3}

\* The recipient of the transaction with hash h.  A hash determines its
\* transaction, so the recipient is a function of the hash.
RecipientCycle == <<QUICKSWAP, OTHER_ADDR, SUSHISWAP, NoRecipient, UNISWAP_V3>>
TxTo(h) == RecipientCycle[((h - 1) % Len(RecipientCycle)) + 1]

\* Gas prices (gwei) the node can report: a usual one, and a spike at which
\* 300000 gas cost more than EXAMPLE_PROFIT.
GasPrices == {30, 1460}

WETH == "WETH"
USDC == "USDC"

LockNames == {"processed_txs", "sim_cache", "opportunities"}
Free == "free"
INGEST == "ingest"
SCHED == "sched"

\* Items of the pending-transaction stream: Some(Ok(tx)), Some(Err(_)), and
\* the value before the first item and after the last.
\* The callers of the simulation engine, the hashes and the depths they pass.
Callers == 1..NumCallers
SimHashes == 1..NumSimTx
Depths == 1..MaxDepth

\* What a call of the engine has returned: nothing yet, or an Err.  An Ok
\* carries the SimulationResult (see SimulationResult below).
NoResult == [kind |-> "none"]
ErrResult == [kind |-> "err"]
NoCall == [hash |-> 0, depth |-> 0]
NoScore == [best_profit |-> [hi |-> 0, lo |-> 0], optimal_path |-> <<>>]

\* Option<QuickSwapAction>, and the decoder not having run.
NotParsed == [state |-> "not_parsed"]
None == [state |-> "none"]
Some(a) == [state |-> "some", action |-> a]
NoTx == [kind |-> "none"]

OkItem(h) == [kind |-> "ok", hash |-> h]
ErrItem == [kind |-> "err"]
NoItem == [kind |-> "none"]

VARIABLES
    \* ---- MempoolMonitor fields (main.rs:48-54)
    processed_txs,      \* HashSet<H256>
    sim_cache,          \* HashMap<H256, U256>
    opportunities,      \* Vec<ArbitrageOpportunity>
    locks,              \* holder of each of the three mutexes
    pool_literal_valid, \* whether the address literal of find_best_pool parses
    \* ---- ingestion task (start_monitoring)
    ipc,                \* position of the task
    item,               \* the last item the stream delivered
    impact,             \* price_impact of analyze_arbitrage
    tx_result,          \* what process_transaction returned
    forwarded,          \* history: forwards of each hash past the dedup check
    dup_dropped,        \* history: the last process_transaction was a dedup drop
    \* ---- scheduler (main loop, execute_opportunities)
    spc,                \* position of the main task
    snap,               \* the cloned Vec of execute_opportunities
    idx,                \* index in snap of the opportunity of this iteration
    gas,                \* the gas price should_execute fetched
    relay,              \* what the send of execute_flash_loan met
    exec_result,        \* what execute_flash_loan returned
    cycle_result,       \* what execute_opportunities returned
    handed,             \* history: opportunities (by src) handed to execute_flash_loan
    \* ---- FastLaneClient caller
    fpc,                \* position of the caller
    chain_block,        \* the node's block number
    bundle,             \* the FastLaneBundle in hand
    fl_sent,            \* the last bundle the relay received
    fl_relay,           \* what the send of submit_bundle met
    fl_result,          \* what submit_bundle returned
    \* ---- AdvancedSimulationEngine (simulation_engine.rs:16-21) and its callers
    simulation_cache,   \* HashMap<H256, SimulationResult>
    eng_lock,           \* the callers holding the simulation_cache mutex
    epc,                \* position of each caller
    ecall,              \* the (hash, depth) of each caller's call
    escore,             \* best_profit and optimal_path of each caller's call
    eres,               \* what each caller's call returned
    ehit,               \* history: the call returned from the cache lookup
    elast,              \* history: what the last completed call for each hash returned
    sim_returned,       \* history: the impacts simulate_price_impact returned for each hash
    \* ---- parse_quickswap_tx (quickswap.rs:141-288)
    dtx,                \* the transaction handed to the decoder
    dres,               \* what the decoder returned for it
    \* ---- FastLaneClient::get_bundle_status (fastlane_integration.rs:77-90)
    now,                \* the timestamp of the chain head, in seconds from the start
    fl_byte,            \* the status byte the contract returned to the last call
    fl_status,          \* what the last call of get_bundle_status returned
    fl_observed         \* history: the statuses reported for the bundle at the relay

monitor_vars == <<processed_txs, sim_cache, opportunities, locks, pool_literal_valid>>
ingest_vars == <<ipc, item, impact, tx_result, forwarded, dup_dropped>>
sched_vars == <<spc, snap, idx, gas, relay, exec_result, cycle_result, handed>>
fl_vars == <<fpc, chain_block, bundle, fl_sent, fl_relay, fl_result>>
eng_vars == <<simulation_cache, eng_lock, epc, ecall, escore, eres, ehit, elast,
              sim_returned>>
dec_vars == <<dtx, dres>>
st_vars == <<now, fl_byte, fl_status, fl_observed>>
vars == <<monitor_vars, ingest_vars, sched_vars, fl_vars, eng_vars, dec_vars, st_vars>>

NoBundle == [kind |-> "none"]
EmptyCache == [h \in {} |-> 0]

PipelineInit ==
    /\ processed_txs = {}
    /\ sim_cache = EmptyCache
    /\ opportunities = <<>>
    /\ locks = [l \in LockNames |-> Free]
    /\ pool_literal_valid \in BOOLEAN
    /\ ipc = "next"
    /\ item = NoItem
    /\ impact = 0
    /\ tx_result = "none"
    /\ forwarded = [h \in Hashes |-> 0]
    /\ dup_dropped = FALSE
    /\ spc = "sleep"
    /\ snap = <<>>
    /\ idx = 0
    /\ gas = 0
    /\ relay = "none"
    /\ exec_result = "none"
    /\ cycle_result = "none"
    /\ handed = {}
    /\ fpc = "idle"
    /\ chain_block = 0
    /\ bundle = NoBundle
    /\ fl_sent = NoBundle
    /\ fl_relay = "none"
    /\ fl_result = "none"
    /\ simulation_cache = EmptyCache
    /\ eng_lock = {}
    /\ epc = [c \in Callers |-> "idle"]
    /\ ecall = [c \in Callers |-> NoCall]
    /\ escore = [c \in Callers |-> NoScore]
    /\ eres = [c \in Callers |-> NoResult]
    /\ ehit = [c \in Callers |-> FALSE]
    /\ elast = [h \in SimHashes |-> NoResult]
    /\ sim_returned = [h \in SimHashes |-> {}]
    /\ now = 0
    /\ fl_byte = 0
    /\ fl_status = "none"
    /\ fl_observed = {}

\* The state after construction; the decoder has been handed nothing.
Init ==
    /\ PipelineInit
    /\ dtx = NoTx
    /\ dres = NotParsed

(***************************************************************************)
(* tokio::sync::Mutex: lock().await takes a free mutex; dropping the guard *)
(* frees it.                                                               *)
(***************************************************************************)
Acquire(l, task) == [locks EXCEPT ![l] = task]
Release(l) == [locks EXCEPT ![l] = Free]
\* Returning from a function drops every guard the task still holds.
DropGuards(task) == [l \in LockNames |-> IF locks[l] = task THEN Free ELSE locks[l]]
Holds(task) == {l \in LockNames : locks[l] = task}

\* A panic of the main task unwinds out of block_on: the runtime is dropped
\* and the spawned ingestion task with it.
ProcessAlive == spc # "panicked"

(***************************************************************************)
(* The ingestion task: start_monitoring (main.rs:67-80) and the functions  *)
(* it awaits.                                                              *)
(***************************************************************************)
ArbitrageOpportunity(h, profit, path) ==
    [ token_in |-> path[1],
      token_out |-> path[Len(path)],
      expected_profit |-> profit,
      path |-> path,
      src |-> h ]    \* history: the transaction the opportunity came from

\* main.rs:73  stream.next().await yields Some(Ok(tx))
StreamOk(h) ==
    /\ ProcessAlive
    /\ ipc = "next"
    /\ item' = OkItem(h)
    /\ ipc' = "lock_processed"
    /\ tx_result' = "none"
    /\ dup_dropped' = FALSE
    /\ UNCHANGED <<monitor_vars, impact, forwarded, sched_vars, fl_vars, eng_vars, dec_vars, st_vars>>

\* main.rs:73  stream.next().await yields Some(Err(_))
StreamErr ==
    /\ ProcessAlive
    /\ ipc = "next"
    /\ item' = ErrItem
    /\ ipc' = "item_err"
    /\ tx_result' = "none"
    /\ dup_dropped' = FALSE
    /\ UNCHANGED <<monitor_vars, impact, forwarded, sched_vars, fl_vars, eng_vars, dec_vars, st_vars>>

\* As OnStreamErr, had the loop read `let tx = tx?;`
OnStreamErrPropagated == "failed"

\* main.rs:74-76  `if let Ok(tx) = tx` does not match: the loop goes on
OnStreamErr == "next"

SkipErrItem ==
    /\ ProcessAlive
    /\ ipc = "item_err"
    /\ ipc' = OnStreamErr
    /\ UNCHANGED <<monitor_vars, item, impact, tx_result, forwarded, dup_dropped,
                   sched_vars, fl_vars, eng_vars, dec_vars, st_vars>>

\* main.rs:73,79  stream.next().await yields None: start_monitoring returns Ok(())
StreamEnd ==
    /\ ProcessAlive
    /\ ipc = "next"
    /\ item' = NoItem
    /\ ipc' = "ended"
    /\ tx_result' = "none"
    /\ dup_dropped' = FALSE
    /\ UNCHANGED <<monitor_vars, impact, forwarded, sched_vars, fl_vars, eng_vars, dec_vars, st_vars>>

\* main.rs:87  self.processed_txs.lock().await
LockProcessed ==
    /\ ProcessAlive
    /\ ipc = "lock_processed"
    /\ locks["processed_txs"] = Free
    /\ locks' = Acquire("processed_txs", INGEST)
    /\ ipc' = "dedup"
    /\ UNCHANGED <<processed_txs, sim_cache, opportunities, pool_literal_valid,
                   item, impact, tx_result, forwarded, dup_dropped, sched_vars, fl_vars, eng_vars, dec_vars, st_vars>>

\* As AlreadyProcessed, had the contains check been left out
AlreadyProcessedNever(h) == FALSE

\* main.rs:88  processed.contains(&tx_hash)
AlreadyProcessed(h) == h \in processed_txs

\* As MarkProcessed, had the insert been left out
MarkProcessedNot(h) == processed_txs

\* main.rs:91  processed.insert(tx_hash)
MarkProcessed(h) == processed_txs \cup {h}

\* main.rs:88-92  the dedup block; its guard is dropped at the closing brace
Dedup ==
    /\ ProcessAlive
    /\ ipc = "dedup"
    /\ IF AlreadyProcessed(item.hash)
         THEN /\ ipc' = "tx_returned"
              /\ tx_result' = "ok"
              /\ dup_dropped' = TRUE
              /\ UNCHANGED <<processed_txs, forwarded>>
         ELSE /\ processed_txs' = MarkProcessed(item.hash)
              /\ forwarded' = [forwarded EXCEPT
                                 ![item.hash] = IF @ < MaxForward THEN @ + 1 ELSE @]
              /\ ipc' = "classify"
              /\ UNCHANGED <<tx_result, dup_dropped>>
    /\ locks' = Release("processed_txs")
    /\ UNCHANGED <<sim_cache, opportunities, pool_literal_valid, item, impact,
                   sched_vars, fl_vars, eng_vars, dec_vars, st_vars>>

\* As is_swap_transaction, had every recipient been taken for a router
is_swap_transaction_any(h) == TRUE

\* main.rs:106-124  is_swap_transaction: the Debug form of tx.to, lowercased,
\* contains a lowercased router address exactly when tx.to is that router
is_swap_transaction(h) == TxTo(h) # NoRecipient /\ TxTo(h) \in known_routers

\* main.rs:95  if self.is_swap_transaction(&tx).await?
Classify ==
    /\ ProcessAlive
    /\ ipc = "classify"
    /\ IF is_swap_transaction(item.hash)
         THEN ipc' = "lock_cache_read" /\ UNCHANGED tx_result
         ELSE ipc' = "tx_returned" /\ tx_result' = "ok"
    /\ UNCHANGED <<monitor_vars, item, impact, forwarded, dup_dropped,
                   sched_vars, fl_vars, eng_vars, dec_vars, st_vars>>

\* main.rs:156  self.sim_cache.lock().await
LockCacheRead ==
    /\ ProcessAlive
    /\ ipc = "lock_cache_read"
    /\ locks["sim_cache"] = Free
    /\ locks' = Acquire("sim_cache", INGEST)
    /\ ipc' = "cache_read"
    /\ UNCHANGED <<processed_txs, sim_cache, opportunities, pool_literal_valid,
                   item, impact, tx_result, forwarded, dup_dropped, sched_vars, fl_vars, eng_vars, dec_vars, st_vars>>

\* As ImpactPasses, had the minimum-impact test been left out
ImpactPassesAlways(i) == TRUE

\* main.rs:130  price_impact > U256::from(100)
ImpactPasses(i) == i > MIN_IMPACT

\* main.rs:128-132,150  analyze_arbitrage once simulate_price_impact returned
AfterImpact(i) == IF ImpactPasses(i) THEN "find_path" ELSE "tx_returned"

\* main.rs:155-160  the cache lookup; its guard is dropped at the closing brace
CacheRead ==
    /\ ProcessAlive
    /\ ipc = "cache_read"
    /\ IF item.hash \in DOMAIN sim_cache
         THEN /\ impact' = sim_cache[item.hash]
              /\ ipc' = AfterImpact(sim_cache[item.hash])
              /\ tx_result' = IF ImpactPasses(sim_cache[item.hash]) THEN tx_result ELSE "ok"
         ELSE /\ ipc' = "evm"
              /\ UNCHANGED <<impact, tx_result>>
    /\ locks' = Release("sim_cache")
    /\ UNCHANGED <<processed_txs, sim_cache, opportunities, pool_literal_valid,
                   item, forwarded, dup_dropped, sched_vars, fl_vars, eng_vars, dec_vars, st_vars>>

\* main.rs:175-178  the impact read off the sandbox's ExecutionResult
ImpactOf(success) == IF success THEN SUCCESS_IMPACT ELSE ZERO_IMPACT

\* main.rs:163-178  the sandbox run; its outcome is the sandbox's
EvmTransact ==
    /\ ProcessAlive
    /\ ipc = "evm"
    /\ \E success \in BOOLEAN : impact' = ImpactOf(success)
    /\ ipc' = "lock_cache_write"
    /\ UNCHANGED <<monitor_vars, item, tx_result, forwarded, dup_dropped,
                   sched_vars, fl_vars, eng_vars, dec_vars, st_vars>>

\* main.rs:181  self.sim_cache.lock().await
LockCacheWrite ==
    /\ ProcessAlive
    /\ ipc = "lock_cache_write"
    /\ locks["sim_cache"] = Free
    /\ locks' = Acquire("sim_cache", INGEST)
    /\ ipc' = "cache_write"
    /\ UNCHANGED <<processed_txs, sim_cache, opportunities, pool_literal_valid,
                   item, impact, tx_result, forwarded, dup_dropped, sched_vars, fl_vars, eng_vars, dec_vars, st_vars>>

\* HashMap::insert
CacheInsert(c, h, v) == [x \in (DOMAIN c) \cup {h} |-> IF x = h THEN v ELSE c[x]]

\* main.rs:182-185  cache.insert, return; the guard is dropped at the return
CacheWrite ==
    /\ ProcessAlive
    /\ ipc = "cache_write"
    /\ sim_cache' = CacheInsert(sim_cache, item.hash, impact)
    /\ locks' = DropGuards(INGEST)
    /\ ipc' = AfterImpact(impact)
    /\ tx_result' = IF ImpactPasses(impact) THEN tx_result ELSE "ok"
    /\ UNCHANGED <<processed_txs, opportunities, pool_literal_valid, item, impact,
                   forwarded, dup_dropped, sched_vars, fl_vars, eng_vars, dec_vars, st_vars>>

\* main.rs:187-195  find_arbitrage_path: the three literals parse
find_arbitrage_path == <<WETH, USDC, WETH>>

\* main.rs:132  self.find_arbitrage_path(tx).await?
FindPath ==
    /\ ProcessAlive
    /\ ipc = "find_path"
    /\ ipc' = "profit"
    /\ UNCHANGED <<monitor_vars, item, impact, tx_result, forwarded, dup_dropped,
                   sched_vars, fl_vars, eng_vars, dec_vars, st_vars>>

\* main.rs:197-200  calculate_profit
calculate_profit == EXAMPLE_PROFIT

\* main.rs:135  profit > U256::from(10).pow(15.into())
ProfitPasses(p) == p > MIN_PROFIT

\* main.rs:133-135  self.calculate_profit(&path).await? and the threshold
CalcProfit ==
    /\ ProcessAlive
    /\ ipc = "profit"
    /\ IF ProfitPasses(calculate_profit)
         THEN ipc' = "routers" /\ UNCHANGED tx_result
         ELSE ipc' = "tx_returned" /\ tx_result' = "ok"
    /\ UNCHANGED <<monitor_vars, item, impact, forwarded, dup_dropped,
                   sched_vars, fl_vars, eng_vars, dec_vars, st_vars>>

\* main.rs:142,202-208  self.get_routers_for_path(&path).await?: both literals parse
GetRouters ==
    /\ ProcessAlive
    /\ ipc = "routers"
    /\ ipc' = "pool"
    /\ UNCHANGED <<monitor_vars, item, impact, tx_result, forwarded, dup_dropped,
                   sched_vars, fl_vars, eng_vars, dec_vars, st_vars>>

\* main.rs:210-213  find_best_pool: Address::from_str of the pool literal.  The
\* literal of the source, "0x...", does not parse; a deployment puts the pool's
\* address there.
find_best_pool == IF pool_literal_valid THEN "ok" ELSE "err"

\* main.rs:143  self.find_best_pool(&path).await?
FindPool ==
    /\ ProcessAlive
    /\ ipc = "pool"
    /\ IF find_best_pool = "ok"
         THEN ipc' = "lock_store" /\ UNCHANGED tx_result
         ELSE ipc' = "tx_returned" /\ tx_result' = "err"
    /\ UNCHANGED <<monitor_vars, item, impact, forwarded, dup_dropped,
                   sched_vars, fl_vars, eng_vars, dec_vars, st_vars>>

\* main.rs:97  self.opportunities.lock().await
LockStorePush ==
    /\ ProcessAlive
    /\ ipc = "lock_store"
    /\ locks["opportunities"] = Free
    /\ locks' = Acquire("opportunities", INGEST)
    /\ ipc' = "push"
    /\ UNCHANGED <<processed_txs, sim_cache, opportunities, pool_literal_valid,
                   item, impact, tx_result, forwarded, dup_dropped, sched_vars, fl_vars, eng_vars, dec_vars, st_vars>>

\* main.rs:98-100  opportunities.push(opportunity); the guard is dropped at the brace
Push ==
    /\ ProcessAlive
    /\ ipc = "push"
    /\ opportunities' = Append(opportunities,
                               ArbitrageOpportunity(item.hash, calculate_profit,
                                                    find_arbitrage_path))
    /\ locks' = Release("opportunities")
    /\ ipc' = "tx_returned"
    /\ tx_result' = "ok"
    /\ UNCHANGED <<processed_txs, sim_cache, pool_literal_valid, item, impact,
                   forwarded, dup_dropped, sched_vars, fl_vars, eng_vars, dec_vars, st_vars>>

\* main.rs:75  self.process_transaction(tx).await?  and, for an Err,
\* main.rs:277-279: start_monitoring returns it and the task logs and ends
OnTxResult(r) == IF r = "err" THEN "failed" ELSE "next"

TxReturned ==
    /\ ProcessAlive
    /\ ipc = "tx_returned"
    /\ ipc' = OnTxResult(tx_result)
    /\ UNCHANGED <<monitor_vars, item, impact, tx_result, forwarded, dup_dropped,
                   sched_vars, fl_vars, eng_vars, dec_vars, st_vars>>

IngestStep ==
    \/ \E h \in Hashes : StreamOk(h)
    \/ StreamErr
    \/ SkipErrItem
    \/ StreamEnd
    \/ LockProcessed
    \/ Dedup
    \/ Classify
    \/ LockCacheRead
    \/ CacheRead
    \/ EvmTransact
    \/ LockCacheWrite
    \/ CacheWrite
    \/ FindPath
    \/ CalcProfit
    \/ GetRouters
    \/ FindPool
    \/ LockStorePush
    \/ Push
    \/ TxReturned

(***************************************************************************)
(* The scheduler: the loop of main (main.rs:282-288) and                   *)
(* execute_opportunities (main.rs:215-225) with the functions it awaits.   *)
(***************************************************************************)
\* main.rs:284  tokio::time::sleep(1 s).await, then execute_opportunities is called
Tick ==
    /\ spc = "sleep"
    /\ spc' = "lock_snapshot"
    /\ UNCHANGED <<monitor_vars, ingest_vars, snap, idx, gas, relay, exec_result,
                   cycle_result, handed, fl_vars, eng_vars, dec_vars, st_vars>>

\* main.rs:216  self.opportunities.lock().await
LockSnapshot ==
    /\ spc = "lock_snapshot"
    /\ locks["opportunities"] = Free
    /\ locks' = Acquire("opportunities", SCHED)
    /\ spc' = "snapshot"
    /\ UNCHANGED <<processed_txs, sim_cache, opportunities, pool_literal_valid,
                   ingest_vars, snap, idx, gas, relay, exec_result, cycle_result,
                   handed, fl_vars, eng_vars, dec_vars, st_vars>>

\* As AfterSnapshot, had the guard been bound (`let guard = ...lock().await;`)
\* and the loop run over it: it would live to the end of the function
AfterSnapshotGuardKept == locks

\* main.rs:216  the guard is a temporary of the statement: dropped at its end
AfterSnapshot == Release("opportunities")

\* main.rs:216  let opportunities = <guard>.clone();
Snapshot ==
    /\ spc = "snapshot"
    /\ snap' = opportunities
    /\ idx' = 1
    /\ locks' = AfterSnapshot
    /\ spc' = "loop"
    /\ UNCHANGED <<processed_txs, sim_cache, opportunities, pool_literal_valid,
                   ingest_vars, gas, relay, exec_result, cycle_result, handed, fl_vars, eng_vars, dec_vars, st_vars>>

\* main.rs:218,224  the for loop: the next opportunity, or Ok(()) after the last
LoopHead ==
    /\ spc = "loop"
    /\ IF idx <= Len(snap)
         THEN /\ spc' = "gas_price"
              /\ UNCHANGED <<locks, cycle_result>>
         ELSE /\ spc' = "cycle_returned"
              /\ cycle_result' = "ok"
              /\ locks' = DropGuards(SCHED)
    /\ UNCHANGED <<processed_txs, sim_cache, opportunities, pool_literal_valid,
                   ingest_vars, snap, idx, gas, relay, exec_result, handed, fl_vars, eng_vars, dec_vars, st_vars>>

\* main.rs:229  self.provider.get_gas_price().await?  answers with a price
GasPriceOk(g) ==
    /\ spc = "gas_price"
    /\ gas' = g
    /\ spc' = "decide"
    /\ UNCHANGED <<monitor_vars, ingest_vars, snap, idx, relay, exec_result,
                   cycle_result, handed, fl_vars, eng_vars, dec_vars, st_vars>>

\* main.rs:219,229  the query fails: `?` returns the error from should_execute
\* and from execute_opportunities
GasPriceErr ==
    /\ spc = "gas_price"
    /\ spc' = "cycle_returned"
    /\ cycle_result' = "err"
    /\ locks' = DropGuards(SCHED)
    /\ UNCHANGED <<processed_txs, sim_cache, opportunities, pool_literal_valid,
                   ingest_vars, snap, idx, gas, relay, exec_result, handed, fl_vars, eng_vars, dec_vars, st_vars>>

\* U256 subtraction (uint crate, impl Sub): panics on overflow, in every build
U256SubPanics(a, b) == a < b
U256Sub(a, b) == a - b

\* main.rs:230  expected_profit - (gas_price * 300000) overflows: should_execute
\* panics, and the panic unwinds through execute_opportunities and main
should_execute_panics(opportunity, gas_price) ==
    U256SubPanics(opportunity.expected_profit, gas_price * GAS_UNITS)

\* main.rs:230-232  should_execute, when the subtraction does not panic
should_execute(opportunity, gas_price) ==
    U256Sub(opportunity.expected_profit, gas_price * GAS_UNITS) > 0

\* main.rs:219-221,230-232  the decision on the opportunity of this iteration
Decide ==
    /\ spc = "decide"
    /\ IF should_execute_panics(snap[idx], gas)
         THEN /\ spc' = "panicked"
              /\ locks' = DropGuards(SCHED)
              /\ UNCHANGED <<idx, gas, handed>>
         ELSE IF should_execute(snap[idx], gas)
           THEN /\ spc' = "send"
                /\ handed' = handed \cup {snap[idx].src}
                /\ UNCHANGED <<idx, gas, locks>>
           ELSE /\ spc' = "loop"
                /\ idx' = idx + 1
                /\ gas' = 0
                /\ UNCHANGED <<locks, handed>>
    /\ UNCHANGED <<processed_txs, sim_cache, opportunities, pool_literal_valid,
                   ingest_vars, snap, relay, exec_result, cycle_result, fl_vars, eng_vars, dec_vars, st_vars>>

\* main.rs:252  call.send().await?  the node takes the transaction or refuses it
Send ==
    /\ spc = "send"
    /\ \E accepted \in BOOLEAN :
         IF accepted
           THEN /\ relay' = "sent"
                /\ spc' = "receipt"
                /\ UNCHANGED exec_result
           ELSE /\ relay' = "rejected"
                /\ exec_result' = "err"
                /\ spc' = "exec_returned"
    /\ UNCHANGED <<monitor_vars, ingest_vars, snap, idx, gas, cycle_result,
                   handed, fl_vars, eng_vars, dec_vars, st_vars>>

\* main.rs:253-259  what execute_flash_loan returns for the outcome of
\* pending_tx.await: an error, Some(receipt), or None
FlashLoanResult(outcome) == IF outcome = "wait_err" THEN "err" ELSE "ok"

\* main.rs:253  pending_tx.await?
Receipt ==
    /\ spc = "receipt"
    /\ \E outcome \in {"wait_err", "receipt", "no_receipt"} :
         /\ relay' = outcome
         /\ exec_result' = FlashLoanResult(outcome)
    /\ spc' = "exec_returned"
    /\ UNCHANGED <<monitor_vars, ingest_vars, snap, idx, gas, cycle_result,
                   handed, fl_vars, eng_vars, dec_vars, st_vars>>

\* main.rs:220  self.execute_flash_loan(&opportunity).await?
ExecReturned ==
    /\ spc = "exec_returned"
    /\ IF exec_result = "err"
         THEN /\ spc' = "cycle_returned"
              /\ cycle_result' = "err"
              /\ locks' = DropGuards(SCHED)
              /\ UNCHANGED <<idx, gas, relay, exec_result>>
         ELSE /\ spc' = "loop"
              /\ idx' = idx + 1
              /\ gas' = 0
              /\ relay' = "none"
              /\ exec_result' = "none"
              /\ UNCHANGED <<locks, cycle_result>>
    /\ UNCHANGED <<processed_txs, sim_cache, opportunities, pool_literal_valid,
                   ingest_vars, snap, handed, fl_vars, eng_vars, dec_vars, st_vars>>

\* As OnCycleResult, had the loop read `monitor.execute_opportunities().await?;`
OnCycleResultPropagated(r) == IF r = "err" THEN "main_returned" ELSE "sleep"

\* main.rs:285-287  if let Err(e) = ... { warn!(..) }: the loop goes on either way
OnCycleResult(r) == "sleep"

CycleReturned ==
    /\ spc = "cycle_returned"
    /\ spc' = OnCycleResult(cycle_result)
    /\ snap' = <<>>
    /\ idx' = 0
    /\ gas' = 0
    /\ relay' = "none"
    /\ exec_result' = "none"
    /\ UNCHANGED <<monitor_vars, ingest_vars, cycle_result, handed, fl_vars, eng_vars, dec_vars, st_vars>>

SchedStep ==
    \/ Tick
    \/ LockSnapshot
    \/ Snapshot
    \/ LoopHead
    \/ \E g \in GasPrices : GasPriceOk(g)
    \/ GasPriceErr
    \/ Decide
    \/ Send
    \/ Receipt
    \/ ExecReturned
    \/ CycleReturned

Next == IngestStep \/ SchedStep

Spec == Init /\ [][Next]_vars

(***************************************************************************)
(* FastLaneClient (fastlane_integration.rs), driven by a caller that       *)
(* builds a bundle, or makes one up from the struct's public fields, and   *)
(* submits it.                                                             *)
(***************************************************************************)
\* Block numbers a caller can write into a bundle of its own.
TargetBlocks == 0..(MaxBlock + 6)

\* The node mines a block.
NewBlock ==
    /\ chain_block < MaxBlock
    /\ chain_block' = chain_block + 1
    /\ UNCHANGED <<monitor_vars, ingest_vars, sched_vars, eng_vars, dec_vars, st_vars, fpc, bundle, fl_sent,
                   fl_relay, fl_result>>

\* Three legs that may all revert.
BundleTransactionsAllRevertible ==
    << [leg |-> "flash_loan", can_revert |-> TRUE],
       [leg |-> "arbitrage",  can_revert |-> TRUE],
       [leg |-> "repayment",  can_revert |-> TRUE] >>

\* fastlane_integration.rs:114-127  the three legs and their can_revert flags
BundleTransactions ==
    << [leg |-> "flash_loan", can_revert |-> FALSE],
       [leg |-> "arbitrage",  can_revert |-> TRUE],
       [leg |-> "repayment",  can_revert |-> FALSE] >>

\* The bundle aimed at the observed block itself.
FastLaneBundleOnCurrentBlock(current_block) ==
    [ kind |-> "bundle",
      transactions |-> BundleTransactions,
      block_number |-> current_block,
      target_block |-> current_block,
      max_timestamp |-> now + 120,
      built_at |-> current_block,
      by |-> "create_arbitrage_bundle" ]

\* fastlane_integration.rs:129-136  the bundle built on the observed block
FastLaneBundle(current_block) ==
    [ kind |-> "bundle",
      transactions |-> BundleTransactions,
      block_number |-> current_block + 1,
      target_block |-> current_block + 1,
      max_timestamp |-> now + 120,   \* :133  block.timestamp + 120
      built_at |-> current_block,    \* history: the block observed at construction
      by |-> "create_arbitrage_bundle" ]   \* history: who made the bundle

\* fastlane_integration.rs:103-137  create_arbitrage_bundle; the block-number
\* query may fail, and then no bundle is built
CreateArbitrageBundle ==
    /\ fpc = "idle"
    /\ \E ok \in BOOLEAN :
         IF ok
           THEN /\ bundle' = FastLaneBundle(chain_block)
                /\ fpc' = "have_bundle"
           ELSE UNCHANGED <<bundle, fpc>>
    /\ fl_result' = "none"
    /\ fl_relay' = "none"
    /\ UNCHANGED <<monitor_vars, ingest_vars, sched_vars, eng_vars, dec_vars, st_vars, chain_block, fl_sent>>

\* fastlane_integration.rs:19-27  FastLaneBundle has public fields: a caller
\* can hand submit_bundle a bundle with any block numbers
CallerBundle(t) ==
    /\ fpc = "idle"
    /\ bundle' = [ kind |-> "bundle",
                   transactions |-> BundleTransactions,
                   block_number |-> t,
                   target_block |-> t,
                   max_timestamp |-> now + 120,
                   built_at |-> chain_block,
                   by |-> "caller" ]
    /\ fpc' = "have_bundle"
    /\ fl_result' = "none"
    /\ fl_relay' = "none"
    /\ UNCHANGED <<monitor_vars, ingest_vars, sched_vars, eng_vars, dec_vars, st_vars, chain_block, fl_sent>>

\* fastlane_integration.rs:51-63  submit_bundle is called: it gets the contract
\* and builds the submitBundle call from the bundle's fields as they are
SubmitBundle ==
    /\ fpc = "have_bundle"
    /\ fpc' = "fl_send"
    /\ UNCHANGED <<monitor_vars, ingest_vars, sched_vars, eng_vars, dec_vars, st_vars, chain_block, bundle, fl_sent,
                   fl_relay, fl_result>>

\* fastlane_integration.rs:65  call.send().await?
FlSend ==
    /\ fpc = "fl_send"
    /\ \E accepted \in BOOLEAN :
         IF accepted
           THEN /\ fl_sent' = bundle
                /\ fl_relay' = "sent"
                /\ fpc' = "fl_receipt"
                /\ fl_observed' = {}
                /\ UNCHANGED fl_result
           ELSE /\ fl_relay' = "rejected"
                /\ fl_result' = "err"
                /\ fpc' = "fl_returned"
                /\ UNCHANGED <<fl_sent, fl_observed>>
    /\ UNCHANGED <<monitor_vars, ingest_vars, sched_vars, eng_vars, dec_vars, chain_block,
                   bundle, now, fl_byte, fl_status>>

\* fastlane_integration.rs:66-74  what submit_bundle returns for the outcome of
\* pending_tx.await: an error, Some(receipt), or None
SubmitResult(outcome) == IF outcome = "receipt" THEN "ok" ELSE "err"

\* fastlane_integration.rs:66  pending_tx.await?
FlReceipt ==
    /\ fpc = "fl_receipt"
    /\ \E outcome \in {"wait_err", "receipt", "no_receipt"} :
         /\ fl_relay' = outcome
         /\ fl_result' = SubmitResult(outcome)
    /\ fpc' = "fl_returned"
    /\ UNCHANGED <<monitor_vars, ingest_vars, sched_vars, eng_vars, dec_vars, st_vars, chain_block, bundle, fl_sent>>

\* The caller takes the result and drops the bundle.
FlReturned ==
    /\ fpc = "fl_returned"
    /\ fpc' = "idle"
    /\ bundle' = NoBundle
    /\ UNCHANGED <<monitor_vars, ingest_vars, sched_vars, eng_vars, dec_vars, st_vars, chain_block, fl_sent,
                   fl_relay, fl_result>>

FastLaneNext ==
    \/ NewBlock
    \/ CreateArbitrageBundle
    \/ \E t \in TargetBlocks : CallerBundle(t)
    \/ SubmitBundle
    \/ FlSend
    \/ FlReceipt
    \/ FlReturned

FastLaneSpec == Init /\ [][FastLaneNext]_vars

(***************************************************************************)
(* FastLaneClient::get_bundle_status (fastlane_integration.rs:77-90),      *)
(* called by the caller for the bundle it has sent, while time passes.     *)
(***************************************************************************)
StatusBytes == 0..U8_MAX
BundleStatus == {"Pending", "Included", "Failed", "Timeout"}

\* A minute passes on the chain.
TimePasses ==
    /\ now < MaxTime
    /\ now' = now + 60
    /\ UNCHANGED <<monitor_vars, ingest_vars, sched_vars, fl_vars, eng_vars, dec_vars,
                   fl_byte, fl_status, fl_observed>>

\* The mapping with no Timeout arm: every other byte is Pending.
get_bundle_status_pending(status) ==
    CASE status = 1 -> "Included"
      [] status = 2 -> "Failed"
      [] OTHER -> "Pending"

\* fastlane_integration.rs:84-89  match status { 0 => .. 1 => .. 2 => .. _ => .. }
get_bundle_status(status) ==
    CASE status = 0 -> "Pending"
      [] status = 1 -> "Included"
      [] status = 2 -> "Failed"
      [] OTHER -> "Timeout"

\* fastlane_integration.rs:78-89  the getBundleStatus call answers with a byte,
\* which the contract chooses
GetBundleStatus ==
    /\ fpc = "idle"
    /\ fl_sent # NoBundle
    /\ fl_status = "none"
    /\ \E status \in StatusBytes :
         /\ fl_byte' = status
         /\ fl_status' = get_bundle_status(status)
         /\ fl_observed' = fl_observed \cup {get_bundle_status(status)}
    /\ UNCHANGED <<monitor_vars, ingest_vars, sched_vars, fl_vars, eng_vars, dec_vars, now>>

\* fastlane_integration.rs:78-82  the contract cannot be built or the call
\* fails: `?` returns the error
GetBundleStatusErr ==
    /\ fpc = "idle"
    /\ fl_sent # NoBundle
    /\ fl_status = "none"
    /\ fl_status' = "err"
    /\ UNCHANGED <<monitor_vars, ingest_vars, sched_vars, fl_vars, eng_vars, dec_vars, now,
                   fl_byte, fl_observed>>

\* The caller takes the status.
StatusReturned ==
    /\ fl_status # "none"
    /\ fl_status' = "none"
    /\ fl_byte' = 0
    /\ UNCHANGED <<monitor_vars, ingest_vars, sched_vars, fl_vars, eng_vars, dec_vars, now,
                   fl_observed>>

\* The caller builds a bundle with create_arbitrage_bundle and submits it.
BundleStep ==
    \/ CreateArbitrageBundle
    \/ SubmitBundle
    \/ FlSend
    \/ FlReceipt
    \/ FlReturned

\* One caller that builds and submits bundles and polls their status, a call
\* at a time.
StatusNext ==
    \/ fl_status = "none" /\ BundleStep
    \/ fl_status = "none" /\ TimePasses
    \/ GetBundleStatus
    \/ GetBundleStatusErr
    \/ StatusReturned

StatusSpec == Init /\ [][StatusNext]_vars

(***************************************************************************)
(* AdvancedSimulationEngine (simulation_engine.rs), called through &self   *)
(* by up to NumCallers tasks at a time.  Its amounts are exact: a U256 of  *)
(* wei is a pair hi * 10^9 + lo with 0 <= lo < 10^9.                       *)
(***************************************************************************)
U256Wei(hi, lo) == [hi |-> hi, lo |-> lo]

\* As WeiGT, had the loop compared with `>=`
WeiGE(a, b) == a.hi > b.hi \/ (a.hi = b.hi /\ a.lo >= b.lo)

\* U256 `>` and `-` on the pairs; `-` panics on underflow
WeiGT(a, b) == a.hi > b.hi \/ (a.hi = b.hi /\ a.lo > b.lo)
WeiSub(a, b) ==
    IF a.lo >= b.lo
      THEN U256Wei(a.hi - b.hi, a.lo - b.lo)
      ELSE U256Wei(a.hi - b.hi - 1, a.lo + 1000000000 - b.lo)

WMATIC == "WMATIC"
USDT == "USDT"

\* simulation_engine.rs:120-143  generate_arbitrage_paths: the same two paths
\* for every transaction and every depth
generate_arbitrage_paths(depth) ==
    << <<WMATIC, USDC, WMATIC>>, <<WMATIC, USDT, USDC, WMATIC>> >>

\* simulation_engine.rs:147  U256::from(15).pow(15) = 437893890380859375 wei
base_profit == U256Wei(437893890, 380859375)
\* simulation_engine.rs:154-157  U256::from(2).pow(15) = 32768 wei
calculate_total_fees(path) == U256Wei(0, 32768)
\* simulation_engine.rs:159-162  U256::from(1).pow(15) = 1 wei
estimate_slippage(path) == U256Wei(0, 1)

\* simulation_engine.rs:145-152  base_profit - fees - slippage
calculate_path_profit(path) ==
    WeiSub(WeiSub(base_profit, calculate_total_fees(path)), estimate_slippage(path))

\* simulation_engine.rs:99-109  the loop over the paths: a path replaces the
\* best one only when its profit is strictly greater
RECURSIVE ScorePaths(_, _, _)
ScorePaths(paths, i, best) ==
    IF i > Len(paths)
      THEN best
      ELSE LET profit == calculate_path_profit(paths[i])
           IN ScorePaths(paths, i + 1,
                         IF WeiGT(profit, best.best_profit)
                           THEN [best_profit |-> profit, optimal_path |-> paths[i]]
                           ELSE best)

\* simulation_engine.rs:169-173  gas_price * U256::from(300000), gas_price in gwei
estimate_gas_cost(gas_price) == U256Wei(gas_price * 300000, 0)

\* simulation_engine.rs:111-117  the SimulationResult of simulate_complex_path
SimulationResult(score, gas_price) ==
    [ kind |-> "ok",
      price_impact |-> 150,
      expected_profit |-> score.best_profit,
      gas_estimate |-> estimate_gas_cost(gas_price),
      success_probability |-> "0.85",
      optimal_path |-> score.optimal_path ]

\* A task calls simulate_multi_dex_arbitrage(tx, depth).
EngCall(c, h, d) ==
    /\ epc[c] = "idle"
    /\ ecall' = [ecall EXCEPT ![c] = [hash |-> h, depth |-> d]]
    /\ epc' = [epc EXCEPT ![c] = "lock_read"]
    /\ UNCHANGED <<monitor_vars, ingest_vars, sched_vars, fl_vars, dec_vars, st_vars, simulation_cache,
                   eng_lock, escore, eres, ehit, elast, sim_returned>>

\* simulation_engine.rs:72  self.simulation_cache.lock().await
EngLockRead(c) ==
    /\ epc[c] = "lock_read"
    /\ eng_lock = {}
    /\ eng_lock' = {c}
    /\ epc' = [epc EXCEPT ![c] = "read"]
    /\ UNCHANGED <<monitor_vars, ingest_vars, sched_vars, fl_vars, dec_vars, st_vars, simulation_cache,
                   ecall, escore, eres, ehit, elast, sim_returned>>

\* The lookup that always misses.
CacheGetNothing(cache, h) == NoResult

\* simulation_engine.rs:73  cache.get(&tx.hash)
CacheGet(cache, h) == IF h \in DOMAIN cache THEN cache[h] ELSE NoResult

\* simulation_engine.rs:73-76  a hit returns the clone of the entry; the guard
\* is dropped at the return or at the closing brace
EngRead(c) ==
    /\ epc[c] = "read"
    /\ LET found == CacheGet(simulation_cache, ecall[c].hash)
       IN IF found.kind = "ok"
            THEN /\ eres' = [eres EXCEPT ![c] = found]
                 /\ ehit' = [ehit EXCEPT ![c] = TRUE]
                 /\ epc' = [epc EXCEPT ![c] = "returned"]
            ELSE /\ epc' = [epc EXCEPT ![c] = "simulate"]
                 /\ UNCHANGED <<eres, ehit>>
    /\ eng_lock' = {}
    /\ UNCHANGED <<monitor_vars, ingest_vars, sched_vars, fl_vars, dec_vars, st_vars, simulation_cache,
                   ecall, escore, elast, sim_returned>>

\* simulation_engine.rs:79-84,99-109  the sandbox is set up, the paths are
\* enumerated and scored
EngSimulate(c) ==
    /\ epc[c] = "simulate"
    /\ escore' = [escore EXCEPT ![c] =
                     ScorePaths(generate_arbitrage_paths(ecall[c].depth), 1, NoScore)]
    /\ epc' = [epc EXCEPT ![c] = "gas"]
    /\ UNCHANGED <<monitor_vars, ingest_vars, sched_vars, fl_vars, dec_vars, st_vars, simulation_cache,
                   eng_lock, ecall, eres, ehit, elast, sim_returned>>

\* simulation_engine.rs:111-117,171  the gas-price query answers: the result
\* is built from the price of this moment
EngGasPriceOk(c, g) ==
    /\ epc[c] = "gas"
    /\ eres' = [eres EXCEPT ![c] = SimulationResult(escore[c], g)]
    /\ epc' = [epc EXCEPT ![c] = "lock_write"]
    /\ UNCHANGED <<monitor_vars, ingest_vars, sched_vars, fl_vars, dec_vars, st_vars, simulation_cache,
                   eng_lock, ecall, escore, ehit, elast, sim_returned>>

\* simulation_engine.rs:84,114,171  the gas-price query fails: `?` carries the
\* error out of simulate_multi_dex_arbitrage before the insert
EngGasPriceErr(c) ==
    /\ epc[c] = "gas"
    /\ eres' = [eres EXCEPT ![c] = ErrResult]
    /\ epc' = [epc EXCEPT ![c] = "returned"]
    /\ UNCHANGED <<monitor_vars, ingest_vars, sched_vars, fl_vars, dec_vars, st_vars, simulation_cache,
                   eng_lock, ecall, escore, ehit, elast, sim_returned>>

\* simulation_engine.rs:87  self.simulation_cache.lock().await
EngLockWrite(c) ==
    /\ epc[c] = "lock_write"
    /\ eng_lock = {}
    /\ eng_lock' = {c}
    /\ epc' = [epc EXCEPT ![c] = "write"]
    /\ UNCHANGED <<monitor_vars, ingest_vars, sched_vars, fl_vars, dec_vars, st_vars, simulation_cache,
                   ecall, escore, eres, ehit, elast, sim_returned>>

\* simulation_engine.rs:88-91  cache.insert(tx.hash, result.clone()); Ok(result)
EngWrite(c) ==
    /\ epc[c] = "write"
    /\ simulation_cache' = CacheInsert(simulation_cache, ecall[c].hash, eres[c])
    /\ eng_lock' = {}
    /\ epc' = [epc EXCEPT ![c] = "returned"]
    /\ UNCHANGED <<monitor_vars, ingest_vars, sched_vars, fl_vars, dec_vars, st_vars, ecall, escore, eres,
                   ehit, elast, sim_returned>>

\* The caller takes what the call returned.
EngReturned(c) ==
    /\ epc[c] = "returned"
    /\ elast' = [elast EXCEPT ![ecall[c].hash] = eres[c]]
    /\ ecall' = [ecall EXCEPT ![c] = NoCall]
    /\ escore' = [escore EXCEPT ![c] = NoScore]
    /\ eres' = [eres EXCEPT ![c] = NoResult]
    /\ ehit' = [ehit EXCEPT ![c] = FALSE]
    /\ epc' = [epc EXCEPT ![c] = "idle"]
    /\ UNCHANGED <<monitor_vars, ingest_vars, sched_vars, fl_vars, dec_vars, st_vars, simulation_cache,
                   eng_lock, sim_returned>>

EngStep(c) ==
    \/ \E h \in SimHashes, d \in Depths : EngCall(c, h, d)
    \/ EngLockRead(c)
    \/ EngRead(c)
    \/ EngSimulate(c)
    \/ \E g \in GasPrices : EngGasPriceOk(c, g)
    \/ EngGasPriceErr(c)
    \/ EngLockWrite(c)
    \/ EngWrite(c)
    \/ EngReturned(c)

\* MempoolMonitor::simulate_price_impact (main.rs:153-185) called for a hash,
\* as analyze_arbitrage calls it at main.rs:128.
CallSimulatePriceImpact(h) ==
    /\ ProcessAlive
    /\ ipc = "next"
    /\ item' = OkItem(h)
    /\ ipc' = "lock_cache_read"
    /\ UNCHANGED <<monitor_vars, impact, tx_result, forwarded, dup_dropped, sched_vars,
                   fl_vars, eng_vars, dec_vars, st_vars>>

\* main.rs:160,184  simulate_price_impact has returned `impact` to its caller
SimulatePriceImpactReturned ==
    /\ ProcessAlive
    /\ ipc \in {"find_path", "tx_returned"}
    /\ sim_returned' = [sim_returned EXCEPT ![item.hash] = @ \cup {impact}]
    /\ ipc' = "next"
    /\ item' = NoItem
    /\ impact' = 0
    /\ tx_result' = "none"
    /\ UNCHANGED <<monitor_vars, forwarded, dup_dropped,
                   sched_vars, fl_vars, dec_vars, st_vars, simulation_cache, eng_lock, epc, ecall, escore,
                   eres, ehit, elast>>

\* simulate_price_impact called by the one task that calls the simulators.
MonitorSimStep ==
    \/ \E h \in SimHashes : CallSimulatePriceImpact(h)
    \/ LockCacheRead
    \/ CacheRead
    \/ EvmTransact
    \/ LockCacheWrite
    \/ CacheWrite
    \/ SimulatePriceImpactReturned

\* Successive calls of the two simulators by one task: a call starts when
\* the call before it has returned.
SimulatorNext ==
    \/ ipc \in {"next", "find_path", "tx_returned"} /\ EngStep(1)
    \/ epc[1] = "idle" /\ MonitorSimStep

SimulatorSpec == Init /\ [][SimulatorNext]_vars

\* The engine called by NumCallers tasks at once.
EngineNext == \E c \in Callers : EngStep(c)

EngineSpec == Init /\ [][EngineNext]_vars

(***************************************************************************)
(* parse_quickswap_tx (quickswap.rs:141-288), a pure function of the       *)
(* transaction.  Call data is the four selector bytes followed by 32-byte  *)
(* words; a word is the number it holds, an address being a number too.    *)
(***************************************************************************)
\* quickswap.rs:7-9
QUICKSWAP_ROUTER_ADDR == QUICKSWAP

\* quickswap.rs:14-30  the nine signatures of the router ABI
QUICKSWAP_ROUTER_ABI ==
    << "swapExactTokensForTokens",
       "swapExactTokensForETH",
       "swapExactETHForTokens",
       "swapTokensForExactTokens",
       "swapETHForExactTokens",
       "swapTokensForExactETH",
       "swapExactTokensForTokensSupportingFeeOnTransferTokens",
       "swapExactTokensForETHSupportingFeeOnTransferTokens",
       "swapExactETHForTokensSupportingFeeOnTransferTokens" >>

\* quickswap.rs:18-29  the signatures without an amountIn parameter
NativeInput ==
    { "swapExactETHForTokens", "swapETHForExactTokens",
      "swapExactETHForTokensSupportingFeeOnTransferTokens" }

\* quickswap.rs:18-29  the parameter types of a signature
ParamTypes(name) ==
    IF name \in NativeInput
      THEN <<"uint256", "address[]", "address", "uint256">>
      ELSE <<"uint256", "uint256", "address[]", "address", "uint256">>

\* The four-byte selector of a signature: the signatures have nine distinct
\* selectors, numbered here 1..9; 0 is a selector of no signature.
Selector(name) == CHOOSE i \in 1..Len(QUICKSWAP_ROUTER_ABI) : QUICKSWAP_ROUTER_ABI[i] = name

\* The ABI encoding of the arguments: one head word per parameter, the head
\* word of the array being the byte offset of its tail, and the tail made of
\* the length and the elements.
EncodeInput(types, args) ==
    LET head == [i \in 1..Len(types) |->
                    IF types[i] = "address[]" THEN 32 * Len(types) ELSE args[i]]
        arr == args[CHOOSE i \in 1..Len(types) : types[i] = "address[]"]
    IN head \o <<Len(arr)>> \o arr

\* quickswap.rs:153  Function::decode_input on one parameter: a static type
\* is its head word; an array is read at the offset its head word gives
DecodeParam(type, i, words) ==
    IF i > Len(words)
      THEN [ok |-> FALSE]
      ELSE IF type = "address[]"
        THEN LET at == (words[i] \div 32) + 1
             IN IF words[i] % 32 = 0 /\ at <= Len(words) /\ at + words[at] <= Len(words)
                  THEN [ok |-> TRUE,
                        token |-> [t |-> "Array",
                                   v |-> [k \in 1..words[at] |->
                                            [t |-> "Address", v |-> words[at + k]]]]]
                  ELSE [ok |-> FALSE]
        ELSE [ok |-> TRUE,
              token |-> [t |-> IF type = "address" THEN "Address" ELSE "Uint",
                         v |-> words[i]]]

\* quickswap.rs:153  f.decode_input(&input[4..]): one token per parameter of
\* the signature, or an error
decode_input(types, words) ==
    LET toks == [i \in 1..Len(types) |-> DecodeParam(types[i], i, words)]
    IN IF \A i \in 1..Len(types) : toks[i].ok
         THEN [ok |-> TRUE, tokens |-> [i \in 1..Len(types) |-> toks[i].token]]
         ELSE [ok |-> FALSE, tokens |-> <<>>]

\* quickswap.rs:157-168  to_addr_vec
to_addr_vec(t) ==
    IF t.t = "Array" /\ \A k \in 1..Len(t.v) : t.v[k].t = "Address"
      THEN [some |-> TRUE, v |-> [k \in 1..Len(t.v) |-> t.v[k].v]]
      ELSE [some |-> FALSE, v |-> <<>>]
\* quickswap.rs:170-172  to_u256
to_u256(t) == IF t.t = "Uint" THEN [some |-> TRUE, v |-> t.v] ELSE [some |-> FALSE, v |-> 0]
\* quickswap.rs:174-176  to_addr
to_addr(t) == IF t.t = "Address" THEN [some |-> TRUE, v |-> t.v] ELSE [some |-> FALSE, v |-> 0]

\* The `?` on each field: the action is built when every helper gave Some.
AllSome(fields) == \A i \in 1..Len(fields) : fields[i].some

\* The exact-input arm that reads the minimum output where the input is.
TokenArmExactInSwapped(variant, tokens) ==
    IF Len(tokens) # 5 THEN None
    ELSE IF ~AllSome(<<to_u256(tokens[1]), to_u256(tokens[2]), to_addr_vec(tokens[3]),
                       to_addr(tokens[4]), to_u256(tokens[5])>>) THEN None
    ELSE Some([ variant |-> variant,
                amount_in |-> to_u256(tokens[2]).v,
                amount_out_min |-> to_u256(tokens[1]).v,
                path |-> to_addr_vec(tokens[3]).v,
                to |-> to_addr(tokens[4]).v,
                deadline |-> to_u256(tokens[5]).v ])

\* quickswap.rs:179-199,247-266  (amountIn, amountOutMin, path, to, deadline)
TokenArmExactIn(variant, tokens) ==
    IF Len(tokens) # 5 THEN None
    ELSE IF ~AllSome(<<to_u256(tokens[1]), to_u256(tokens[2]), to_addr_vec(tokens[3]),
                       to_addr(tokens[4]), to_u256(tokens[5])>>) THEN None
    ELSE Some([ variant |-> variant,
                amount_in |-> to_u256(tokens[1]).v,
                amount_out_min |-> to_u256(tokens[2]).v,
                path |-> to_addr_vec(tokens[3]).v,
                to |-> to_addr(tokens[4]).v,
                deadline |-> to_u256(tokens[5]).v ])

\* quickswap.rs:213-233  (amountOut, amountInMax, path, to, deadline)
TokenArmExactOut(variant, tokens) ==
    IF Len(tokens) # 5 THEN None
    ELSE IF ~AllSome(<<to_u256(tokens[1]), to_u256(tokens[2]), to_addr_vec(tokens[3]),
                       to_addr(tokens[4]), to_u256(tokens[5])>>) THEN None
    ELSE Some([ variant |-> variant,
                amount_out |-> to_u256(tokens[1]).v,
                amount_in_max |-> to_u256(tokens[2]).v,
                path |-> to_addr_vec(tokens[3]).v,
                to |-> to_addr(tokens[4]).v,
                deadline |-> to_u256(tokens[5]).v ])

\* The native-input arm that takes the input amount from the call data.
NativeArmExactInFromCalldata(variant, tokens, value) ==
    IF Len(tokens) # 4 THEN None
    ELSE IF ~AllSome(<<to_u256(tokens[1]), to_addr_vec(tokens[2]), to_addr(tokens[3]),
                       to_u256(tokens[4])>>) THEN None
    ELSE Some([ variant |-> variant,
                amount_in |-> to_u256(tokens[1]).v,
                amount_out_min |-> to_u256(tokens[1]).v,
                path |-> to_addr_vec(tokens[2]).v,
                to |-> to_addr(tokens[3]).v,
                deadline |-> to_u256(tokens[4]).v ])

\* quickswap.rs:200-210,267-276  (amountOutMin, path, to, deadline); the
\* input amount is tx.value
NativeArmExactIn(variant, tokens, value) ==
    IF Len(tokens) # 4 THEN None
    ELSE IF ~AllSome(<<to_u256(tokens[1]), to_addr_vec(tokens[2]), to_addr(tokens[3]),
                       to_u256(tokens[4])>>) THEN None
    ELSE Some([ variant |-> variant,
                amount_in |-> value,
                amount_out_min |-> to_u256(tokens[1]).v,
                path |-> to_addr_vec(tokens[2]).v,
                to |-> to_addr(tokens[3]).v,
                deadline |-> to_u256(tokens[4]).v ])

\* quickswap.rs:234-244  (amountOut, path, to, deadline); the input cap is
\* tx.value
NativeArmExactOut(variant, tokens, value) ==
    IF Len(tokens) # 4 THEN None
    ELSE IF ~AllSome(<<to_u256(tokens[1]), to_addr_vec(tokens[2]), to_addr(tokens[3]),
                       to_u256(tokens[4])>>) THEN None
    ELSE Some([ variant |-> variant,
                amount_out |-> to_u256(tokens[1]).v,
                amount_in_max |-> value,
                path |-> to_addr_vec(tokens[2]).v,
                to |-> to_addr(tokens[3]).v,
                deadline |-> to_u256(tokens[4]).v ])

\* quickswap.rs:177-284  match name { ... }
MatchName(name, tokens, value) ==
    CASE name = "swapExactTokensForTokens" ->
           TokenArmExactIn("SwapExactTokensForTokens", tokens)
      [] name = "swapExactTokensForETH" ->
           TokenArmExactIn("SwapExactTokensForETH", tokens)
      [] name = "swapExactETHForTokens" ->
           NativeArmExactIn("SwapExactETHForTokens", tokens, value)
      [] name = "swapTokensForExactTokens" ->
           TokenArmExactOut("SwapTokensForExactTokens", tokens)
      [] name = "swapTokensForExactETH" ->
           TokenArmExactOut("SwapTokensForExactETH", tokens)
      [] name = "swapETHForExactTokens" ->
           NativeArmExactOut("SwapETHForExactTokens", tokens, value)
      [] name = "swapExactTokensForTokensSupportingFeeOnTransferTokens" ->
           TokenArmExactIn("SwapExactTokensForTokensSupportingFeeOnTransferTokens", tokens)
      [] name = "swapExactTokensForETHSupportingFeeOnTransferTokens" ->
           TokenArmExactIn("SwapExactTokensForETHSupportingFeeOnTransferTokens", tokens)
      [] name = "swapExactETHForTokensSupportingFeeOnTransferTokens" ->
           NativeArmExactIn("SwapExactETHForTokensSupportingFeeOnTransferTokens", tokens,
                            value)
      [] OTHER -> None

\* quickswap.rs:142-144  the recipient is the QuickSwap router
ToRouterAlways(tx) == TRUE
ToRouter(tx) == tx.to = QUICKSWAP_ROUTER_ADDR

\* quickswap.rs:141-288  parse_quickswap_tx
parse_quickswap_tx(tx) ==
    IF ~ToRouter(tx) THEN None
    ELSE IF tx.input.len < 4 THEN None
    ELSE LET matching == {i \in 1..Len(QUICKSWAP_ROUTER_ABI) :
                             Selector(QUICKSWAP_ROUTER_ABI[i]) = tx.input.selector}
         IN IF matching = {} THEN None
            ELSE LET name == QUICKSWAP_ROUTER_ABI[CHOOSE i \in matching : TRUE]
                     decoded == decode_input(ParamTypes(name), tx.input.words)
                 IN IF ~decoded.ok THEN None
                    ELSE MatchName(name, decoded.tokens, tx.value)

\* The transactions handed to the decoder: a router call with arguments
\* (amount0, amount1, path, to, deadline) is ABI-encoded, or encoded and cut
\* short by a word, or sent under a selector of no signature, or its call
\* data is shorter than a selector; the transaction goes to the router, to
\* another address or to no recipient, with or without value.
TokenAddrs == {3, 4}
Paths == UNION {[1..n -> TokenAddrs] : n \in 0..MaxPathLen}
Calls ==
    [ name : {QUICKSWAP_ROUTER_ABI[i] : i \in 1..Len(QUICKSWAP_ROUTER_ABI)},
      amount0 : {11}, amount1 : {22}, path : Paths, to : {7}, deadline : {99} ]
Shapes == {"encoded", "truncated", "unknown_selector", "short", "empty"}
TxRecipients == {QUICKSWAP_ROUTER_ADDR, OTHER_ADDR, NoRecipient}
TxValues == {0, 5}

CallArgs(call) ==
    IF call.name \in NativeInput
      THEN <<call.amount0, call.path, call.to, call.deadline>>
      ELSE <<call.amount0, call.amount1, call.path, call.to, call.deadline>>

CallData(call, shape) ==
    LET words == EncodeInput(ParamTypes(call.name), CallArgs(call))
    IN CASE shape = "encoded" ->
              [len |-> 4 + 32 * Len(words), selector |-> Selector(call.name),
               words |-> words]
         [] shape = "truncated" ->
              [len |-> 4 + 32 * (Len(words) - 1), selector |-> Selector(call.name),
               words |-> SubSeq(words, 1, Len(words) - 1)]
         [] shape = "unknown_selector" ->
              [len |-> 4 + 32 * Len(words), selector |-> 0, words |-> words]
         [] shape = "short" -> [len |-> 3, selector |-> 0, words |-> <<>>]
         [] shape = "empty" -> [len |-> 0, selector |-> 0, words |-> <<>>]

TxInputs ==
    { [ kind |-> "tx", to |-> to, value |-> value, input |-> CallData(call, shape),
        call |-> call, shape |-> shape ] :    \* history: what the call data was made from
      call \in Calls, shape \in Shapes, to \in TxRecipients, value \in TxValues }

DecoderInit ==
    /\ PipelineInit
    /\ dtx \in TxInputs
    /\ dres = NotParsed

\* quickswap.rs:141  parse_quickswap_tx(&tx) is called and returns
ParseQuickswapTx ==
    /\ dtx.kind = "tx"
    /\ dres = NotParsed
    /\ dres' = parse_quickswap_tx(dtx)
    /\ UNCHANGED <<monitor_vars, ingest_vars, sched_vars, fl_vars, eng_vars, st_vars, dtx>>

DecoderNext == ParseQuickswapTx

DecoderSpec == DecoderInit /\ [][DecoderNext]_vars

(***************************************************************************)
(* Properties.                                                             *)
(***************************************************************************)

\* ---- C1 ----------------------------------------------------------------
\* The step process_transaction takes at the dedup check for a hash that is
\* already in processed_txs: it returns Ok at once, and the dedup set, the
\* simulation cache and the opportunity store are as before.
DedupDropIsSilent ==
    (ipc = "dedup" /\ item.hash \in processed_txs /\ ipc' # ipc)
        => /\ ipc' = "tx_returned"
           /\ tx_result' = "ok"
           /\ UNCHANGED <<processed_txs, sim_cache, opportunities, forwarded>>

\* C1: whatever the stream delivers, repeats included, each hash passes the
\* dedup check of process_transaction towards classification and analysis at
\* most once, and an arrival of a hash already in processed_txs returns at
\* once without changing processed_txs, sim_cache or opportunities.
C1_DedupForwardsAtMostOnce ==
    /\ [](\A h \in Hashes : forwarded[h] <= 1)
    /\ [][DedupDropIsSilent]_vars

\* A repeated arrival of a router transaction that had produced an
\* opportunity has just been dropped.
C1_Witness ==
    /\ ipc = "tx_returned"
    /\ dup_dropped
    /\ item.kind = "ok"
    /\ item.hash \in processed_txs
    /\ forwarded[item.hash] = 1
    /\ \E i \in 1..Len(opportunities) : opportunities[i].src = item.hash

\* ---- C2 ----------------------------------------------------------------
\* Positions at which a task is inside a network operation: the stream read,
\* the sandbox run and the path, profit, router and pool lookups of the
\* ingestion task; should_execute (gas-price query) and execute_flash_loan
\* (send and receipt) of the scheduler.
IngestNetworkOps == {"next", "evm", "find_path", "profit", "routers", "pool"}
SchedNetworkOps == {"gas_price", "decide", "send", "receipt", "exec_returned"}

\* C2: a task that is inside a network operation holds none of the three
\* locks; in particular the scheduler has released the store lock before it
\* calls should_execute or execute_flash_loan.
C2_NoLockAcrossNetworkOp ==
    /\ ipc \in IngestNetworkOps => Holds(INGEST) = {}
    /\ spc \in SchedNetworkOps => Holds(SCHED) = {}

\* The scheduler awaits a receipt while the ingestion task holds the store
\* lock to push an opportunity.
C2_Witness ==
    /\ spc = "receipt"
    /\ locks["opportunities"] = INGEST
    /\ ipc = "push"

\* ---- C3 ----------------------------------------------------------------
\* C3: when the gas price fetched for the opportunity of this iteration makes
\* expected_profit - gas_price * 300000 zero or negative, the scheduler
\* neither hands the opportunity to execute_flash_loan nor aborts.
C3_ProfitGateDiscards ==
    (idx \in 1..Len(snap) /\ snap[idx].expected_profit <= gas * GAS_UNITS)
        => spc \notin {"send", "receipt", "exec_returned", "panicked"}

\* ---- C4 ----------------------------------------------------------------
\* A target strictly after the block observed at construction and at most
\* five blocks after it.
ValidTarget(b) == b.built_at < b.target_block /\ b.target_block <= b.built_at + 5

\* C4: no bundle whose target block is stale or beyond the horizon reaches
\* the relay, and submit_bundle returns StaleBundleTarget for it.
C4_TargetBlockValidated ==
    /\ fl_sent # NoBundle => ValidTarget(fl_sent)
    /\ (fpc = "fl_returned" /\ ~ValidTarget(bundle)) => fl_result = "StaleBundleTarget"

\* ---- C5 ----------------------------------------------------------------
\* C5: when a cycle returns, every opportunity of its snapshot has been
\* evaluated: a failure at one opportunity does not skip the ones after it.
C5_FailureDoesNotSkipTheRest ==
    spc = "cycle_returned" => idx >= Len(snap)

\* ---- C6 ----------------------------------------------------------------
\* C6: an error returned by process_transaction does not end the ingestion
\* loop.
C6_TxFailureDoesNotEndIngestion ==
    tx_result = "err" => ipc # "failed"

\* ---- C7 ----------------------------------------------------------------
\* C7: when execute_opportunities has returned an error, the next step of the
\* main task is the sleep of the loop, and after the sleep the next cycle
\* starts: the main task never leaves the loop on a returned error.
C7_SchedulerLoopSurvivesErrors ==
    /\ [][(spc = "cycle_returned" /\ cycle_result = "err")
             => spc' \in {"cycle_returned", "sleep"}]_vars
    /\ [][spc = "sleep" => spc' \in {"sleep", "lock_snapshot"}]_vars

\* A new cycle has started after a cycle that returned an error.
C7_Witness ==
    /\ spc = "lock_snapshot"
    /\ cycle_result = "err"

\* ---- C8 ----------------------------------------------------------------
\* C8: delivering and skipping an Err item of the stream leaves processed_txs,
\* sim_cache and opportunities unchanged, and the task goes from the Err item
\* to the next read of the stream, not out of start_monitoring.
C8_ErrItemSkipped ==
    /\ [][(item' = ErrItem /\ ipc' = "item_err")
             => UNCHANGED <<processed_txs, sim_cache, opportunities>>]_vars
    /\ [][(ipc = "item_err" /\ ipc' # ipc)
             => /\ ipc' = "next"
                /\ UNCHANGED <<processed_txs, sim_cache, opportunities>>]_vars

\* An Err item has been skipped, after a transaction had been processed, and
\* the task reads the stream again.
C8_Witness ==
    /\ ipc = "next"
    /\ item = ErrItem
    /\ processed_txs # {}

\* ---- C9 ----------------------------------------------------------------
\* C9: when a cycle has returned, no opportunity of its snapshot is left in
\* the store, and no opportunity is handed to execute_flash_loan a second
\* time.
C9_CycleDrainsStore ==
    /\ [](spc = "cycle_returned" =>
            \A i \in 1..Len(snap) : \A j \in 1..Len(opportunities) :
                opportunities[j].src # snap[i].src)
    /\ [][(spc = "decide" /\ spc' = "send") => snap[idx].src \notin handed]_vars

\* ---- C10 ---------------------------------------------------------------
\* C10: when the send is rejected or no receipt comes back, execute_flash_loan
\* and submit_bundle return an error.
C10_NoReceiptIsAnError ==
    /\ (spc = "exec_returned" /\ relay \in {"rejected", "no_receipt"})
          => exec_result = "err"
    /\ (fpc = "fl_returned" /\ fl_relay \in {"rejected", "no_receipt"})
          => fl_result = "err"

\* ---- C11 ---------------------------------------------------------------
\* C11: a pending transaction sent to a registered router whose simulated
\* impact exceeds the minimum and whose profit exceeds the threshold has an
\* opportunity in the store once it has been processed (the first stage of
\* the end-to-end run to an included bundle).
C11_RouterTxYieldsOpportunity ==
    ( /\ ipc \in {"tx_returned", "failed"}
      /\ item.kind = "ok"
      /\ ~dup_dropped
      /\ is_swap_transaction(item.hash)
      /\ ImpactPasses(impact)
      /\ ProfitPasses(calculate_profit) )
    => \E i \in 1..Len(opportunities) : opportunities[i].src = item.hash

C13_CachedResultImmutable ==
    [][\A h \in DOMAIN simulation_cache :
          h \in DOMAIN simulation_cache' /\ simulation_cache'[h] = simulation_cache[h]]_vars

\* ---- C14 ---------------------------------------------------------------
\* The selector of the call data is the selector of none of the signatures.
UnknownSelector(tx) ==
    \A i \in 1..Len(QUICKSWAP_ROUTER_ABI) :
        Selector(QUICKSWAP_ROUTER_ABI[i]) # tx.input.selector

\* C14: for a transaction whose recipient is not the router (or is absent),
\* whose call data is shorter than four bytes, or whose selector matches no
\* signature, parse_quickswap_tx returns None, and the call changes nothing
\* but its result.
C14_NotARouterCallIsNone ==
    /\ []( ( /\ dres # NotParsed
             /\ \/ dtx.to # QUICKSWAP_ROUTER_ADDR
                \/ dtx.input.len < 4
                \/ UnknownSelector(dtx) )
           => dres = None )
    /\ [][dres' # dres
            => UNCHANGED <<monitor_vars, ingest_vars, sched_vars, fl_vars, eng_vars, st_vars, dtx>>]_vars

\* A well-formed call sent to no recipient has been decoded to None.
C14_Witness ==
    /\ dres = None
    /\ dtx.to = NoRecipient
    /\ dtx.shape = "encoded"
    /\ Len(dtx.call.path) = 2

\* ---- C15 ---------------------------------------------------------------
\* quickswap.rs:49-121  the variants of QuickSwapAction, in the order of
\* the signatures
QuickSwapActionNames ==
    << "SwapExactTokensForTokens",
       "SwapExactTokensForETH",
       "SwapExactETHForTokens",
       "SwapTokensForExactTokens",
       "SwapETHForExactTokens",
       "SwapTokensForExactETH",
       "SwapExactTokensForTokensSupportingFeeOnTransferTokens",
       "SwapExactTokensForETHSupportingFeeOnTransferTokens",
       "SwapExactETHForTokensSupportingFeeOnTransferTokens" >>

\* The signatures whose amounts are (amountOut, amountInMax).
ExactOutput == {"swapTokensForExactTokens", "swapTokensForExactETH", "swapETHForExactTokens"}

\* The encoded call of a router transaction has been decoded.
Decoded == dres # NotParsed /\ dtx.to = QUICKSWAP_ROUTER_ADDR /\ dtx.shape = "encoded"

\* C15: the call data encoded from known arguments under any of the nine
\* signatures decodes to the variant of that signature, with the path, the
\* recipient, the deadline and the encoded amounts in the fields of the same
\* meaning.
C15_DecoderRoundTrip ==
    Decoded =>
      /\ dres.state = "some"
      /\ dres.action.variant = QuickSwapActionNames[Selector(dtx.call.name)]
      /\ dres.action.path = dtx.call.path
      /\ dres.action.to = dtx.call.to
      /\ dres.action.deadline = dtx.call.deadline
      /\ CASE dtx.call.name \in NativeInput \cap ExactOutput ->
                dres.action.amount_out = dtx.call.amount0
           [] dtx.call.name \in NativeInput \ ExactOutput ->
                dres.action.amount_out_min = dtx.call.amount0
           [] dtx.call.name \in ExactOutput \ NativeInput ->
                /\ dres.action.amount_out = dtx.call.amount0
                /\ dres.action.amount_in_max = dtx.call.amount1
           [] OTHER ->
                /\ dres.action.amount_in = dtx.call.amount0
                /\ dres.action.amount_out_min = dtx.call.amount1

\* An exact-input token call with a two-token path has been decoded.
C15_Witness ==
    /\ Decoded
    /\ dtx.call.name = "swapExactTokensForTokensSupportingFeeOnTransferTokens"
    /\ Len(dtx.call.path) = 2
    /\ dres.state = "some"
    /\ dres.action.amount_in = dtx.call.amount0

\* ---- C16 ---------------------------------------------------------------
\* C16: for the three native-input calls the bound input amount (amount_in,
\* or amount_in_max for the exact-output one) is tx.value; for every other
\* call both amounts are the decoded parameters, whatever tx.value is.
C16_NativeInputIsTxValue ==
    (Decoded /\ dres.state = "some") =>
      CASE dtx.call.name \in NativeInput \cap ExactOutput ->
             dres.action.amount_in_max = dtx.value
        [] dtx.call.name \in NativeInput \ ExactOutput ->
             dres.action.amount_in = dtx.value
        [] dtx.call.name \in ExactOutput \ NativeInput ->
             /\ dres.action.amount_out = dtx.call.amount0
             /\ dres.action.amount_in_max = dtx.call.amount1
        [] OTHER ->
             /\ dres.action.amount_in = dtx.call.amount0
             /\ dres.action.amount_out_min = dtx.call.amount1

\* A native-input call carrying value has been decoded.
C16_Witness ==
    /\ Decoded
    /\ dtx.call.name = "swapExactETHForTokens"
    /\ dtx.value = 5
    /\ dres.state = "some"
    /\ dres.action.amount_in = 5

\* ---- C17 ---------------------------------------------------------------
\* C17: every action parse_quickswap_tx returns has a path of at least two
\* addresses.
C17_PathHasTwoAddresses ==
    dres.state = "some" => Len(dres.action.path) >= 2

\* ---- C19 ---------------------------------------------------------------
\* A bundle made by create_arbitrage_bundle is in the caller's hands.
Created == bundle.kind = "bundle" /\ bundle.by = "create_arbitrage_bundle"

\* C19: every bundle create_arbitrage_bundle returns has exactly three
\* transactions, the flash-loan draw, the arbitrage and the repayment in
\* this order, with can_revert false, true, false.
C19_BundleHasThreeLegs ==
    Created =>
      /\ Len(bundle.transactions) = 3
      /\ bundle.transactions[1] = [leg |-> "flash_loan", can_revert |-> FALSE]
      /\ bundle.transactions[2] = [leg |-> "arbitrage", can_revert |-> TRUE]
      /\ bundle.transactions[3] = [leg |-> "repayment", can_revert |-> FALSE]

\* create_arbitrage_bundle has returned a bundle.
C19_Witness == Created /\ fpc = "have_bundle"

\* ---- C20 ---------------------------------------------------------------
\* C20: the bundle create_arbitrage_bundle builds has target_block and
\* block_number equal to the block observed at construction plus one, and so
\* current_block < target_block <= current_block + 5.
C20_BundleTargetsNextBlock ==
    /\ [][(fpc = "idle" /\ fpc' = "have_bundle" /\ bundle'.by = "create_arbitrage_bundle")
            => /\ bundle'.target_block = chain_block + 1
               /\ bundle'.block_number = chain_block + 1]_vars
    /\ [](Created =>
            /\ bundle.target_block = bundle.built_at + 1
            /\ bundle.block_number = bundle.built_at + 1
            /\ ValidTarget(bundle))

\* A bundle built after a block was mined is on its way to the relay.
C20_Witness ==
    /\ Created
    /\ fpc = "fl_send"
    /\ bundle.built_at >= 1
    /\ bundle.target_block = bundle.built_at + 1

\* ---- C21 ---------------------------------------------------------------
\* Neither Included nor Failed has been reported for the bundle at the relay.
Unresolved == fl_observed \cap {"Included", "Failed"} = {}

\* C21: get_bundle_status reports Timeout for a bundle only when neither
\* Included nor Failed has been observed for it and its max-timestamp window
\* has elapsed; before that an unresolved bundle is reported as Pending.
C21_TimeoutOnlyAfterWindow ==
    /\ fl_status = "Timeout" => (Unresolved /\ now > fl_sent.max_timestamp)
    /\ (fl_status \in BundleStatus /\ Unresolved /\ now <= fl_sent.max_timestamp)
          => fl_status = "Pending"

\* ---- C22 ---------------------------------------------------------------
\* C22: when the sandbox run of a transaction does not succeed,
\* simulate_price_impact returns an error and the cache has no entry for the
\* hash.
C22_SandboxFailureNotCached ==
    /\ \A h \in DOMAIN sim_cache : sim_cache[h] # ZERO_IMPACT
    /\ (ipc = "tx_returned" /\ item.kind = "ok" /\ impact = ZERO_IMPACT)
          => (tx_result = "err" /\ item.hash \notin DOMAIN sim_cache)

\* ---- C23 ---------------------------------------------------------------
Hops(path) == Len(path) - 1

\* C23: for a call with maximum depth d, every candidate path enumerated
\* and the optimal_path scored and returned have at most d hops.
C23_PathsWithinDepth ==
    \A c \in Callers :
      /\ escore[c] # NoScore =>
           /\ \A i \in 1..Len(generate_arbitrage_paths(ecall[c].depth)) :
                Hops(generate_arbitrage_paths(ecall[c].depth)[i]) <= ecall[c].depth
           /\ Hops(escore[c].optimal_path) <= ecall[c].depth
      /\ eres[c].kind = "ok" => Hops(eres[c].optimal_path) <= ecall[c].depth

\* ---- C24 ---------------------------------------------------------------
\* a <= b on U256 pairs
WeiLE(a, b) == a.hi < b.hi \/ (a.hi = b.hi /\ a.lo <= b.lo)

\* C24: the optimal_path of a computed result is an enumerated candidate of
\* maximum profit, of the fewest hops among the candidates of that profit,
\* and expected_profit is its profit.
C24_OptimalPathIsBest ==
    \A c \in Callers :
      (eres[c].kind = "ok" /\ ~ehit[c]) =>
        LET paths == generate_arbitrage_paths(ecall[c].depth)
            r == eres[c]
        IN /\ \E i \in 1..Len(paths) :
                /\ paths[i] = r.optimal_path
                /\ calculate_path_profit(paths[i]) = r.expected_profit
           /\ \A j \in 1..Len(paths) :
                /\ WeiLE(calculate_path_profit(paths[j]), r.expected_profit)
                /\ calculate_path_profit(paths[j]) = r.expected_profit
                     => Hops(r.optimal_path) <= Hops(paths[j])

\* A call has computed a result out of candidates of equal profit and
\* different lengths.
C24_Witness ==
    \E c \in Callers :
      /\ epc[c] = "returned"
      /\ eres[c].kind = "ok"
      /\ ~ehit[c]
      /\ Hops(eres[c].optimal_path) = 2
      /\ \E j \in 1..Len(generate_arbitrage_paths(ecall[c].depth)) :
           /\ Hops(generate_arbitrage_paths(ecall[c].depth)[j]) = 3
           /\ calculate_path_profit(generate_arbitrage_paths(ecall[c].depth)[j])
                = eres[c].expected_profit

\* ---- C25 ---------------------------------------------------------------
\* The opportunities of the store that came from transaction h.
FromTx(h) == {i \in 1..Len(opportunities) : opportunities[i].src = h}

\* C25: every opportunity of the store came from a transaction whose
\* simulated impact is strictly greater than 100 and has an expected profit
\* strictly greater than 10^15 wei; a transaction of impact at most 100 has
\* no opportunity in the store.
C25_StoreHoldsOnlyPassingOpportunities ==
    /\ \A i \in 1..Len(opportunities) :
         /\ opportunities[i].expected_profit > MIN_PROFIT
         /\ opportunities[i].src \in DOMAIN sim_cache
         /\ sim_cache[opportunities[i].src] > MIN_IMPACT
    /\ \A h \in DOMAIN sim_cache : sim_cache[h] <= MIN_IMPACT => FromTx(h) = {}

\* The store holds an opportunity, and a router transaction of impact 0 has
\* been processed without adding one.
C25_Witness ==
    /\ Len(opportunities) >= 1
    /\ \E h \in DOMAIN sim_cache :
         /\ sim_cache[h] = ZERO_IMPACT
         /\ FromTx(h) = {}
         /\ ~(ipc \in {"lock_cache_write", "cache_write"} /\ item.hash = h)

\* ---- C27 ---------------------------------------------------------------
\* The positions of process_transaction after the dedup block.
AfterDedup ==
    {"classify", "lock_cache_read", "cache_read", "evm", "lock_cache_write",
     "cache_write", "find_path", "profit", "routers", "pool", "lock_store", "push"}

\* C27: the hash is in processed_txs before classification and analysis and
\* is never removed; a transaction whose analysis failed stays marked, and no
\* hash is analysed twice.
C27_FailedTxStaysProcessed ==
    /\ [][processed_txs \subseteq processed_txs']_vars
    /\ [](ipc \in AfterDedup => item.hash \in processed_txs)
    /\ []((ipc \in {"tx_returned", "failed"} /\ tx_result = "err")
            => item.hash \in processed_txs)
    /\ [](\A h \in Hashes : forwarded[h] <= 1)

\* The analysis of a transaction has failed, and its hash is marked.
C27_Witness ==
    /\ ipc = "failed"
    /\ tx_result = "err"
    /\ item.hash \in processed_txs

\* ---- C28 ---------------------------------------------------------------
\* C28: of the concurrent calls for one hash, at most one runs the
\* simulation body (enumeration and scoring).
C28_BodyRunsOncePerHash ==
    \A c1, c2 \in Callers :
      (c1 # c2 /\ ecall[c1].hash = ecall[c2].hash)
        => ~(escore[c1] # NoScore /\ escore[c2] # NoScore)

\* ---- C29 ---------------------------------------------------------------
\* The positions of execute_opportunities between the snapshot and its return.
InCycle == {"loop", "gas_price", "decide", "send", "receipt", "exec_returned"}

\* C29: a cycle works on the store as it was at the moment of its snapshot,
\* one opportunity after the other in store order, and has reached every
\* one of them when it returns; the store only grows by appends, so what
\* the ingestion task appends meanwhile is in the next snapshot.
C29_SnapshotIsolation ==
    /\ [][(spc = "snapshot" /\ spc' = "loop") => snap' = opportunities]_vars
    /\ [][(spc \in InCycle /\ spc' \in InCycle)
            => (snap' = snap /\ idx' \in {idx, idx + 1})]_vars
    /\ [][/\ Len(opportunities') >= Len(opportunities)
          /\ SubSeq(opportunities', 1, Len(opportunities)) = opportunities]_vars
    /\ [](spc = "cycle_returned" => \A i \in 1..Len(snap) : i <= idx)

\* ---- C30 ---------------------------------------------------------------
\* The recipient is absent or is none of the three routers.
NonRouter(h) == TxTo(h) = NoRecipient \/ TxTo(h) \notin known_routers

C26_StatusByteMapping ==
    /\ [](fl_status \notin {"none", "err"} =>
            /\ fl_status \in BundleStatus
            /\ fl_byte = 0 => fl_status = "Pending"
            /\ fl_byte = 1 => fl_status = "Included"
            /\ fl_byte = 2 => fl_status = "Failed"
            /\ fl_byte \in 3..255 => fl_status = "Timeout")
    /\ [][(fl_status = "none" /\ fl_status' # "none")
            => UNCHANGED <<monitor_vars, ingest_vars, sched_vars, fl_vars, eng_vars,
                           dec_vars, now>>]_vars

\* The contract has answered with the byte 255.
C26_Witness == fl_status = "Timeout" /\ fl_byte = 255

\* ---- C31 ---------------------------------------------------------------
\* start_monitoring has returned: the stream ended, or an error was returned
\* and logged by the spawned task.
Terminated == ipc \in {"ended", "failed"}

\* C31: once start_monitoring has returned the store gets no further
\* opportunity, and the scheduler loop goes on without it: it never stops,
\* the store's lock is free for its snapshot, the snapshot is what is stored,
\* and a cycle that has returned is followed by the next sleep.
C31_SchedulerOutlivesIngestion ==
    /\ [][Terminated => (Terminated' /\ opportunities' = opportunities)]_vars
    /\ [](Terminated => spc # "panicked")
    /\ [](Terminated => locks["opportunities"] # INGEST)
    /\ [][(Terminated /\ spc = "snapshot") => snap' = opportunities]_vars
    /\ [][(Terminated /\ spc = "cycle_returned")
             => spc' \in {"cycle_returned", "sleep"}]_vars
    /\ [][(Terminated /\ spc = "sleep") => spc' \in {"sleep", "lock_snapshot"}]_vars

=============================================================================
